---- MODULE Spec2Model ----
(***************************************************************************)
(* Resume verification pipeline: the two orchestrators                     *)
(*   app.analyze_resume (src/app.py)  and  api.analyze_resume (src/api.py) *)
(* with the score normalisation, the result record, the score breakdown    *)
(* rows of the dashboard and the report export.                            *)
(*                                                                         *)
(* Numbers.  Python floats are modelled as exact decimals in fixed point:  *)
(* every score is an integer number of 1/10000 points (Unit), so 0.85 is   *)
(* 8500, 42 is 420000 and 100 is 1000000.  The inputs are chosen so that   *)
(* every division the code performs is exact in this unit and no rounding  *)
(* falls on an exact tie, where the binary representation would decide.    *)
(*                                                                         *)
(* Specifications.  Spec: one well-formed request, the validator and the   *)
(* detector returning any values.  SpecPolicy: the detector follows the    *)
(* documented scoring policy.  SpecContract: the validator returns no more *)
(* records than claims.  SpecRequest: every request, document and stage    *)
(* failure, request after request.  SpecLookup: the claim-by-claim display *)
(* on drawn lists of claims and validations.                               *)
(* SpecSession: the app's session, initialize_session write by write, two  *)
(* callers, failing figures and text generators.  SpecScenario: the two    *)
(* end-to-end scenarios with ten claims under the documented policy.       *)
(***************************************************************************)
EXTENDS Integers, Sequences, FiniteSets, TLC

VARIABLES
    entry,            \* which program runs: "app" (src/app.py) | "api" (src/api.py)
    pc,               \* position of analyze_resume between its stage calls
    initialized,      \* current_session['initialized']
    request,          \* the inputs of the request being served
    parsed_cv,        \* what cv_parser.parse returned
    stage_log,        \* the stage calls analyze_resume made in this request
    response,         \* what analyze_resume returned to its caller
    temp_file,        \* the api's temporary upload file: "none" | "exists" | "deleted"
    n_claims,         \* len(claims_result['claims'])
    buzzword_density, \* claims_result['metrics']['buzzword_density']
    validations,      \* validation_result['validations']: verification_status per record
    raw_consistency,  \* validation_result['consistency_score']
    detector_in,      \* 'consistency_score' of the bundle handed to detect_red_flags
    red_flag_result,  \* what detect_red_flags returned
    normalized,       \* local consistency_score after normalize_score, before round
    norm_count,       \* how many times normalize_score ran in this request
    analysis_results, \* the dict compiled by analyze_resume (returned by the api)
    last_analysis,    \* current_session['last_analysis']
    score_rows,       \* adjustment rows of generate_score_calculation_details
    export_status,    \* what export_report returned, while it is the latest call
    shown_claims,     \* claims handed to generate_enhanced_claim_analysis
    shown_validations,\* validations handed to generate_enhanced_claim_analysis
    claim_pairs,      \* its (claim, validation) pairs per category
    gemini_client,    \* current_session['gemini_client']
    api_key,          \* current_session['api_key']
    init_pc,          \* position of initialize_session between its writes
    figures,          \* the four figures analyze_resume returned
    latest_store,     \* the result dict of the latest assignment to the slot
    exported          \* the dict export_report wrote its file from

request_vars == << request, parsed_cv, stage_log, response, temp_file >>

stage_data == << n_claims, buzzword_density, validations, raw_consistency,
                 detector_in, red_flag_result >>

compile_data == << normalized, norm_count, analysis_results, score_rows >>

lookup_vars == << shown_claims, shown_validations, claim_pairs >>

client_vars == << gemini_client, api_key, init_pc >>

extra_vars == << client_vars, figures, latest_store, exported >>

vars == << entry, pc, initialized, request_vars, stage_data, compile_data,
           last_analysis, export_status, lookup_vars, extra_vars >>

----------------------------------------------------------------------------
(* Fixed point *)

Unit == 100 * 100

\* the decimal i.f, f given in 1/10000
D(i, f) == i * Unit + f

Pts(i) == D(i, 0)

Min(a, b) == IF a < b THEN a ELSE b

Max(a, b) == IF a > b THEN a ELSE b

None == "None"

\* an empty slot where a result dict is expected
NoAnalysis == [ none |-> TRUE ]

----------------------------------------------------------------------------
(* Bounds of the model *)

MaxClaims == 2

MaxFlags == 1

\* consistency scores the validator can return: fractional, in range,
\* over-scaled and negative
RawScores ==
    { Pts(0), D(0, 50), D(0, 8500), D(0, 8800), D(0, 8886), Pts(1),
      Pts(42), Pts(100), Pts(120), Pts(150), Pts(250), Pts(20000), 0 - D(0, 5000) }

\* (credibility, final) scores the detector stage can hand back
DetectorScores ==
    { << D(87, 4600), D(91, 2300) >>, << Pts(120), D(87, 4600) >>,
      << D(87, 4600), Pts(120) >> }

BuzzDensities == { D(0, 1000), D(0, 1500) }

Statuses == { "verified", "partial", "unverified", "red_flag" }

ValidationLists == UNION { [1..k -> Statuses] : k \in 0..MaxClaims }

Entries == { "app", "api" }

----------------------------------------------------------------------------
(* Pure functions of the orchestrators *)

\* Python round(x, 1): to the nearest tenth, ties to even
Round1(x) ==
    LET tenth == Unit \div 10
        q == x \div tenth
        r == x % tenth
    IN  IF 2 * r > tenth THEN (q + 1) * tenth
        ELSE IF 2 * r < tenth THEN q * tenth
        ELSE IF q % 2 = 0 THEN q * tenth ELSE (q + 1) * tenth

\* variants of normalize_score with one slip each
normalize_score_strict(score) ==
    IF score > Pts(100) THEN Min(Pts(100), score \div 100)
    ELSE IF score < Pts(1) THEN score * 100
    ELSE Min(Pts(100), score)

normalize_score_clamp_only(score) ==
    IF score <= Pts(1) THEN score * 100 ELSE Min(Pts(100), score)

normalize_score_floordiv(score) ==
    IF score > Pts(100) THEN Min(Pts(100), (score \div Pts(100)) * Unit)
    ELSE IF score <= Pts(1) THEN score * 100
    ELSE Min(Pts(100), score)

normalize_score_scale_all(score) ==
    IF score > Pts(100) THEN Min(Pts(100), score \div 100)
    ELSE Min(Pts(100), score * 100)

normalize_score_app(score) ==
    IF score > Pts(100) THEN Min(Pts(100), score \div 100)
    ELSE IF score <= Pts(1) THEN score * 100
    ELSE Min(Pts(100), score)

normalize_score_api(score) ==
    IF score > Pts(100) THEN Min(Pts(100), score \div 100)
    ELSE IF score <= Pts(1) THEN score * 100
    ELSE Min(Pts(100), score)

normalize_score(e, score) ==
    IF e = "app" THEN normalize_score_app(score) ELSE normalize_score_api(score)


\* a verified count that takes partial records too
verified_claims_with_partial(vals) ==
    Cardinality({ i \in DOMAIN vals : vals[i] \in { "verified", "partial" } })

\* an unverified count that takes every record
unverified_claims_any_status(vals) ==
    Cardinality({ i \in DOMAIN vals : vals[i] \in Statuses })

\* sum(1 for v in validations if v.get('verification_status') == 'verified')
verified_claims(vals) ==
    Cardinality({ i \in DOMAIN vals : vals[i] = "verified" })

\* sum(1 for v in validations if v.get('verification_status') in ['unverified', 'red_flag'])
unverified_claims(vals) ==
    Cardinality({ i \in DOMAIN vals : vals[i] \in { "unverified", "red_flag" } })

\* the unverified row with the threshold met at exactly one half
RowUnverifiedAtHalf(results) ==
    IF 2 * results.unverified_claims >= results.total_claims
    THEN { << "Majority claims unverified", 0 - Pts(20) >> } ELSE {}

\* the deduction row for a majority of unverified claims
RowUnverified(results) ==
    IF 2 * results.unverified_claims > results.total_claims
    THEN { << "Majority claims unverified", 0 - Pts(20) >> } ELSE {}

\* the deduction row for the red flags
RowRedFlags(results) ==
    LET red_flag_deduction == results.total_red_flags * (0 - Pts(5))
    IN  IF red_flag_deduction < 0
        THEN { << "Red flags", red_flag_deduction >> } ELSE {}

\* the deduction row for a high buzzword density
RowBuzzwords(results) ==
    IF results.buzzword_density > D(0, 1000)
    THEN { << "High buzzword density", 0 - Pts(10) >> } ELSE {}

\* the bonus row for a strong evidence ratio
RowEvidence(results) ==
    IF 10 * results.verified_claims > 7 * results.total_claims
    THEN { << "Strong evidence ratio", Pts(10) >> } ELSE {}

\* the adjustment rows (factor, impact) of the credibility table
generate_score_calculation_details(results) ==
    RowUnverified(results) \cup RowRedFlags(results)
        \cup RowBuzzwords(results) \cup RowEvidence(results)

\* the scores as analyze_resume stores them: each rounded to one decimal
RoundedScores(rfr, consistency) ==
    [ final_score       |-> Round1(rfr.final_score),
      credibility_score |-> Round1(rfr.credibility_score),
      consistency_score |-> Round1(consistency) ]

\* the analysis_results dict (the fields the scores and counts live in)
CompileResults(n, vals, buzz, rfr, consistency) ==
    LET s == RoundedScores(rfr, consistency)
    IN  [ total_claims      |-> n,
          verified_claims   |-> verified_claims(vals),
          unverified_claims |-> unverified_claims(vals),
          buzzword_density  |-> buzz,
          consistency_score |-> s.consistency_score,
          total_red_flags   |-> rfr.red_flags,
          credibility_score |-> s.credibility_score,
          final_score       |-> s.final_score ]

\* generate_comprehensive_analysis_display writes the clamped score back
\* into the dict it was given
DisplayClamp(results) ==
    [ results EXCEPT !.consistency_score = Min(Pts(100), @) ]

\* a write-back that also raises a negative score to zero
ClampBelowToo(results) ==
    [ results EXCEPT !.consistency_score = Max(0, Min(Pts(100), @)) ]

\* export_report writes the clamped score back into last_analysis
ExportClamp(results) ==
    [ results EXCEPT !.consistency_score = Min(Pts(100), @) ]

----------------------------------------------------------------------------
(* The detector stage as the design describes it (its code is not part of  *)
(* the sources): the credibility policy and the 60/40 blend, applied to    *)
(* the bundle it is handed.                                                *)

Clamp100(x) == Max(0, Min(Pts(100), x))

credibility_policy(n, vals, flags, buzz) ==
    Clamp100(Pts(100)
        - (IF 2 * unverified_claims(vals) > n THEN Pts(20) ELSE 0)
        - flags * Pts(5)
        - (IF buzz > D(0, 1000) THEN Pts(10) ELSE 0)
        + (IF 10 * verified_claims(vals) > 7 * n THEN Pts(10) ELSE 0))

final_score_policy(credibility, consistency) ==
    Round1((6 * credibility + 4 * consistency) \div 10)

----------------------------------------------------------------------------
(* Request boundary, zero-claims diagnostics and error values *)

\* str.lower() on the parameter values the model draws
Lower(s) ==
    CASE s = "Senior" -> "senior"
      [] s = "HIGH"   -> "high"
      [] OTHER        -> s

valid_seniority == { "intern", "junior", "mid", "senior", "lead" }

valid_strictness == { "low", "medium", "high" }

SeniorityAccepted(seniority) == Lower(seniority) \in valid_seniority

StrictnessAccepted(strictness) == Lower(strictness) \in valid_strictness

\* the early returns of analyze_resume: the message of the first check that
\* fails, "none" when the request goes on to the pipeline
EntryCheck(e, init, req) ==
    IF e = "api"
    THEN IF req.file = "missing" THEN "No file uploaded"
         ELSE IF req.file = "empty_name" THEN "Empty filename"
         ELSE IF ~SeniorityAccepted(req.seniority) THEN "Invalid seniority"
         ELSE IF ~StrictnessAccepted(req.strictness) THEN "Invalid strictness"
         ELSE "none"
    ELSE IF ~init THEN "Please initialize session with API key first"
         ELSE IF req.file = "missing" THEN "Please upload a resume file"
         ELSE "none"

\* the value returned for a request that failed an entry check
RejectResponse(e, msg) ==
    IF e = "api"
    THEN [ kind |-> "input_error", status |-> 400, message |-> msg ]
    ELSE [ kind |-> "precondition", status |-> 0, message |-> msg ]

\* the except clause with the status of an input error
ErrorResponseAs400(e) ==
    IF e = "api"
    THEN [ kind |-> "analysis_failed", status |-> 400, message |-> "Analysis failed" ]
    ELSE [ kind |-> "analysis_failed", status |-> 0, message |-> "Analysis failed" ]

\* an except clause that lets the exception through
ErrorPropagated(e) ==
    [ kind |-> "exception", status |-> 0, message |-> "raised" ]

\* the value the except clause returns: "Analysis failed" / error JSON, 500
ErrorResponse(e) ==
    IF e = "api"
    THEN [ kind |-> "analysis_failed", status |-> 500, message |-> "Analysis failed" ]
    ELSE [ kind |-> "analysis_failed", status |-> 0, message |-> "Analysis failed" ]

SuccessResponse(e) ==
    IF e = "api"
    THEN [ kind |-> "success", status |-> 200, message |-> "success" ]
    ELSE [ kind |-> "success", status |-> 0, message |-> "Analysis complete" ]

MinResumeLength == 100

\* a diagnosis that looks at the sections before the length
ZeroClaimsMessageSectionsFirst(doc) ==
    IF Len(doc.sections) = 0 THEN "Could not parse resume structure"
    ELSE IF Len(doc.sections) = 1 THEN "Only found one section"
    ELSE IF doc.length < MinResumeLength THEN "Resume too short"
    ELSE "No analyzable claims found, sections listed"

\* the diagnosis of app.analyze_resume for a document without claims
ZeroClaimsMessage(doc) ==
    IF doc.length < MinResumeLength THEN "Resume too short"
    ELSE IF Len(doc.sections) = 0 THEN "Could not parse resume structure"
    ELSE IF doc.sections = << "education" >> \/ Len(doc.sections) = 1
         THEN "Only found one section"
    ELSE "No analyzable claims found, sections listed"

\* what each entry point returns when no claims were extracted
ZeroClaimsResponse(e, doc) ==
    IF e = "api"
    THEN [ kind |-> "no_claims", status |-> 400,
           message |-> "No claims found in resume" ]
    ELSE [ kind |-> "no_claims", status |-> 0,
           message |-> ZeroClaimsMessage(doc) ]

\* a pipeline that goes on to validation whatever the number of claims
AfterExtractUnchecked(n) == "extracted"

\* a pipeline that leaves out the validation stage
AfterExtractSkipping(n) == IF n = 0 THEN "no_claims" ELSE "validated"

\* 'if not claims: return ...' after extract_claims
AfterExtract(n) == IF n = 0 THEN "no_claims" ELSE "extracted"

\* the api keeps its upload in a temporary file, the app has none
TempFileCreated(e, f) == IF e = "api" THEN "exists" ELSE f

\* the finally clause of the api: os.unlink on the temporary file
TempFileCleaned(e, f) == IF e = "api" /\ f = "exists" THEN "deleted" ELSE f

\* the stage analyze_resume calls next at each position
StageAt(p) ==
    CASE p = "accepted"  -> "parse"
      [] p = "parsed"    -> "extract"
      [] p = "extracted" -> "validate"
      [] p = "validated" -> "detect"

\* the validator answers with at most one record per claim it was given
ValidatorContract(n, vals) == Len(vals) <= n

\* consistency scores for the runs that do not study the score itself
ContractScores == { D(0, 8500), Pts(42) }

----------------------------------------------------------------------------
(* State machine *)

NoDetection == [ red_flags |-> 0, credibility_score |-> 0, final_score |-> 0 ]

NoRequest == [ file |-> "none", seniority |-> "none", strictness |-> "none" ]

NoDoc == [ length |-> 0, sections |-> << >> ]

NoResponse == [ kind |-> "none", status |-> 0, message |-> "none" ]

\* a well-formed request and a complete document
DefaultRequest == [ file |-> "ok", seniority |-> "mid", strictness |-> "medium" ]

DefaultDoc == [ length |-> 100, sections |-> << "education", "experience" >> ]

\* the locals of analyze_resume before its first stage
FreshLocals ==
    /\ n_claims = 0
    /\ buzzword_density = 0
    /\ validations = << >>
    /\ raw_consistency = 0
    /\ detector_in = 0
    /\ red_flag_result = NoDetection
    /\ normalized = 0
    /\ norm_count = 0
    /\ analysis_results = NoAnalysis
    /\ score_rows = {}

\* no initialize_session call is between its writes
IdleInit == [ step |-> 0, key |-> "" ]

\* the GeminiClient built from an api key
ClientOf(key) == key

\* 'last_analysis' in current_session: the key is there from the start
SlotKeyPresent == TRUE

\* one of the two programs is started; nothing was analysed yet
InitSession ==
    /\ pc = "idle"
    /\ initialized = FALSE
    /\ request = NoRequest
    /\ parsed_cv = NoDoc
    /\ stage_log = << >>
    /\ response = NoResponse
    /\ temp_file = "none"
    /\ FreshLocals
    /\ last_analysis = NoAnalysis
    /\ export_status = "none"
    /\ gemini_client = "none"
    /\ api_key = "none"
    /\ init_pc = IdleInit
    /\ figures = "none"
    /\ latest_store = NoAnalysis
    /\ exported = NoAnalysis

NoLookup ==
    /\ shown_claims = << >>
    /\ shown_validations = << >>
    /\ claim_pairs = << >>

Init ==
    /\ entry \in Entries
    /\ InitSession
    /\ NoLookup

\* app.initialize_session as one step: the three session fields are
\* written only when the client answered the connection test
InitializeSession(ok) ==
    /\ entry = "app"
    /\ pc = "idle"
    /\ init_pc = IdleInit
    /\ initialized' = IF ok THEN TRUE ELSE initialized
    /\ gemini_client' = IF ok THEN ClientOf("k1") ELSE gemini_client
    /\ api_key' = IF ok THEN "k1" ELSE api_key
    /\ UNCHANGED << entry, pc, request_vars, stage_data, compile_data,
                    last_analysis, export_status, lookup_vars,
                    init_pc, figures, latest_store, exported >>

\* the order of the three assignments with the flag written first
InitWriteOrderFlagFirst == << "initialized", "gemini_client", "api_key" >>

\* the order of the three assignments that end initialize_session
InitWriteOrder == << "gemini_client", "api_key", "initialized" >>

\* initialize_session up to its first assignment: an empty key, a client
\* that cannot be built and a failed connection test return before it
BeginInitialize(key, ok) ==
    /\ entry = "app"
    /\ init_pc = IdleInit
    /\ init_pc' = IF key # "" /\ ok THEN [ step |-> 1, key |-> key ]
                  ELSE init_pc
    /\ UNCHANGED << entry, pc, initialized, request_vars, stage_data,
                    compile_data, last_analysis, export_status, lookup_vars,
                    gemini_client, api_key, figures, latest_store,
                    exported >>

\* the next of the three assignments of initialize_session
InitWrite ==
    /\ init_pc.step \in 1..3
    /\ LET field == InitWriteOrder[init_pc.step]
       IN  /\ gemini_client' = IF field = "gemini_client"
                                THEN ClientOf(init_pc.key) ELSE gemini_client
           /\ api_key' = IF field = "api_key" THEN init_pc.key ELSE api_key
           /\ initialized' = IF field = "initialized" THEN TRUE
                             ELSE initialized
    /\ init_pc' = IF init_pc.step = 3 THEN IdleInit
                  ELSE [ init_pc EXCEPT !.step = @ + 1 ]
    /\ UNCHANGED << entry, pc, request_vars, stage_data, compile_data,
                    last_analysis, export_status, lookup_vars, figures,
                    latest_store, exported >>

\* a request passes the entry checks of analyze_resume; the api saves the
\* upload to its temporary file
AcceptRequest(req) ==
    /\ pc = "idle"
    /\ EntryCheck(entry, initialized, req) = "none"
    /\ request' = req
    /\ stage_log' = << >>
    /\ response' = NoResponse
    /\ temp_file' = TempFileCreated(entry, temp_file)
    /\ pc' = "accepted"
    /\ export_status' = "none"
    /\ exported' = NoAnalysis
    /\ UNCHANGED << entry, initialized, parsed_cv, stage_data, compile_data,
                    last_analysis, lookup_vars,
                    client_vars, figures, latest_store >>

\* a request fails an entry check: analyze_resume returns at once
RejectRequest(req) ==
    /\ pc = "idle"
    /\ EntryCheck(entry, initialized, req) # "none"
    /\ request' = req
    /\ stage_log' = << >>
    /\ response' = RejectResponse(entry, EntryCheck(entry, initialized, req))
    /\ pc' = "rejected"
    /\ export_status' = "none"
    /\ exported' = NoAnalysis
    /\ UNCHANGED << entry, initialized, parsed_cv, temp_file, stage_data,
                    compile_data, last_analysis, lookup_vars,
                    client_vars, figures, latest_store >>

\* the api's file.save raises: the temporary file was created before the
\* inner try block, so only the outer except clause runs
UploadSaveRaises(req) ==
    /\ entry = "api"
    /\ pc = "idle"
    /\ EntryCheck(entry, initialized, req) = "none"
    /\ request' = req
    /\ stage_log' = << >>
    /\ response' = ErrorResponse(entry)
    /\ temp_file' = TempFileCreated(entry, temp_file)
    /\ pc' = "failed"
    /\ export_status' = "none"
    /\ exported' = NoAnalysis
    /\ UNCHANGED << entry, initialized, parsed_cv, stage_data, compile_data,
                    last_analysis, lookup_vars,
                    client_vars, figures, latest_store >>

\* cv_parser.parse returns
ParseResume(doc) ==
    /\ pc = "accepted"
    /\ parsed_cv' = doc
    /\ stage_log' = Append(stage_log, "parse")
    /\ pc' = "parsed"
    /\ UNCHANGED << entry, initialized, request, response, temp_file,
                    stage_data, compile_data, last_analysis, export_status,
                    lookup_vars,
                    extra_vars >>

\* claim_extractor.extract_claims returns; zero claims ends the request
ExtractClaims(n, buzz) ==
    /\ pc = "parsed"
    /\ n_claims' = n
    /\ buzzword_density' = buzz
    /\ stage_log' = Append(stage_log, "extract")
    /\ pc' = AfterExtract(n)
    /\ IF AfterExtract(n) = "no_claims"
       THEN /\ response' = ZeroClaimsResponse(entry, parsed_cv)
            /\ temp_file' = TempFileCleaned(entry, temp_file)
       ELSE UNCHANGED << response, temp_file >>
    /\ UNCHANGED << entry, initialized, request, parsed_cv, validations,
                    raw_consistency, detector_in, red_flag_result,
                    compile_data, last_analysis, export_status, lookup_vars,
                    extra_vars >>

\* evidence_validator.validate_evidence returns
ValidateEvidence(vals, score) ==
    /\ pc = "extracted"
    /\ validations' = vals
    /\ raw_consistency' = score
    /\ stage_log' = Append(stage_log, "validate")
    /\ pc' = "validated"
    /\ UNCHANGED << entry, initialized, request, parsed_cv, response,
                    temp_file, n_claims, buzzword_density, detector_in,
                    red_flag_result, compile_data, last_analysis,
                    export_status, lookup_vars,
                    extra_vars >>

\* validate_evidence of a validator that keeps its contract
ValidateEvidenceContract(vals, score) ==
    /\ ValidatorContract(n_claims, vals)
    /\ ValidateEvidence(vals, score)

\* the bundle's 'consistency_score' is validation_result['consistency_score']
DetectorBundleScore == raw_consistency

\* red_flag_detector.detect_red_flags returns whatever the detector computed
DetectRedFlags(flags, credibility, final) ==
    /\ pc = "validated"
    /\ detector_in' = DetectorBundleScore
    /\ red_flag_result' = [ red_flags         |-> flags,
                            credibility_score |-> credibility,
                            final_score       |-> final ]
    /\ stage_log' = Append(stage_log, "detect")
    /\ pc' = "detected"
    /\ UNCHANGED << entry, initialized, request, parsed_cv, response,
                    temp_file, n_claims, buzzword_density, validations,
                    raw_consistency, compile_data, last_analysis,
                    export_status, lookup_vars,
                    extra_vars >>

\* detect_red_flags with the detector following the documented policy
DetectRedFlagsPolicy(flags) ==
    LET credibility == credibility_policy(n_claims, validations, flags,
                                          buzzword_density)
    IN  DetectRedFlags(flags, credibility,
                       final_score_policy(credibility, DetectorBundleScore))

\* the stage about to be called raises: the except clause of analyze_resume
\* returns the error value, after the api's finally clause
StageRaises ==
    /\ pc \in { "accepted", "parsed", "extracted", "validated" }
    /\ stage_log' = Append(stage_log, StageAt(pc))
    /\ response' = ErrorResponse(entry)
    /\ temp_file' = TempFileCleaned(entry, temp_file)
    /\ pc' = "failed"
    /\ UNCHANGED << entry, initialized, request, parsed_cv, stage_data,
                    compile_data, last_analysis, export_status, lookup_vars,
                    extra_vars >>

\* the assignment current_session['last_analysis'] = analysis_results when
\* an earlier result in the slot is kept
StoreKeepingFirst(slot, results) ==
    IF slot = NoAnalysis THEN results ELSE slot

\* current_session['last_analysis'] = analysis_results
StoreAnalysis(slot, results) == results

\* a failure of the figures answered like a failure of a stage
FiguresResponseAborting(e, viz) ==
    IF viz = "empty" THEN ErrorResponse(e) ELSE SuccessResponse(e)

\* the answer of analyze_resume after the figures: their own except clause
\* sets the four figures to None and the call goes on to return success
FiguresResponse(e, viz) == SuccessResponse(e)

\* normalisation, rounding, the result dict, the session slot, the figures
\* (viz: "drawn", or "empty" when building them raised) and the dashboard
\* text, up to the return of analyze_resume
Compile(viz) ==
    /\ pc = "detected"
    /\ LET consistency == normalize_score(entry, raw_consistency)
           results == CompileResults(n_claims, validations, buzzword_density,
                                     red_flag_result, consistency)
       IN  /\ normalized' = consistency
           /\ norm_count' = norm_count + 1
           /\ IF entry = "app"
              THEN /\ analysis_results' = DisplayClamp(results)
                   /\ last_analysis' =
                          DisplayClamp(StoreAnalysis(last_analysis, results))
                   /\ latest_store' = results
                   /\ figures' = viz
                   /\ score_rows' = generate_score_calculation_details(results)
              ELSE /\ analysis_results' = results
                   /\ UNCHANGED << last_analysis, score_rows, figures,
                                   latest_store >>
    /\ response' = FiguresResponse(entry, viz)
    /\ temp_file' = TempFileCleaned(entry, temp_file)
    /\ pc' = "done"
    /\ UNCHANGED << entry, initialized, request, parsed_cv, stage_log,
                    stage_data, export_status, lookup_vars, client_vars,
                    exported >>

CompileAnalysis == Compile("drawn")

\* the app's result is compiled and stored, then one of the text generators
\* raises on it: the except clause answers 'Analysis failed'
DisplayRaises ==
    /\ pc = "detected"
    /\ entry = "app"
    /\ LET consistency == normalize_score(entry, raw_consistency)
           results == CompileResults(n_claims, validations, buzzword_density,
                                     red_flag_result, consistency)
       IN  /\ normalized' = consistency
           /\ norm_count' = norm_count + 1
           /\ last_analysis' =
                  DisplayClamp(StoreAnalysis(last_analysis, results))
           /\ latest_store' = results
    /\ response' = ErrorResponse(entry)
    /\ pc' = "failed"
    /\ UNCHANGED << entry, initialized, request, parsed_cv, stage_log,
                    temp_file, stage_data, analysis_results, score_rows,
                    export_status, lookup_vars, client_vars, figures,
                    exported >>

\* a second call of app.analyze_resume, running at the same time, reaches its
\* assignment to the session slot
OtherCallerStores(results) ==
    /\ entry = "app"
    /\ initialized
    /\ last_analysis' = DisplayClamp(StoreAnalysis(last_analysis, results))
    /\ latest_store' = results
    /\ UNCHANGED << entry, pc, initialized, request_vars, stage_data,
                    compile_data, export_status, lookup_vars, client_vars,
                    figures, exported >>

\* app.export_report, called between requests of the app: the slot key
\* always exists, so an empty slot fails inside the try block
ExportReport ==
    /\ pc \in { "idle", "done", "no_claims", "failed", "rejected" }
    /\ entry = "app"
    /\ IF ~SlotKeyPresent
       THEN /\ export_status' = "no_analysis"
            /\ exported' = NoAnalysis
            /\ UNCHANGED last_analysis
       ELSE IF last_analysis = NoAnalysis
       THEN /\ export_status' = "failed"
            /\ exported' = NoAnalysis
            /\ UNCHANGED last_analysis
       ELSE /\ last_analysis' = ExportClamp(last_analysis)
            /\ exported' = ExportClamp(last_analysis)
            /\ export_status' = "ok"
    /\ UNCHANGED << entry, pc, initialized, request_vars, stage_data,
                    compile_data, lookup_vars, client_vars, figures,
                    latest_store >>

\* analyze_resume has returned: its locals are gone, the session and the
\* state of the temporary file stay
ReturnToIdle ==
    /\ pc \in { "done", "no_claims", "failed", "rejected" }
    /\ pc' = "idle"
    /\ request' = NoRequest
    /\ parsed_cv' = NoDoc
    /\ stage_log' = << >>
    /\ response' = NoResponse
    /\ n_claims' = 0
    /\ buzzword_density' = 0
    /\ validations' = << >>
    /\ raw_consistency' = 0
    /\ detector_in' = 0
    /\ red_flag_result' = NoDetection
    /\ normalized' = 0
    /\ norm_count' = 0
    /\ analysis_results' = NoAnalysis
    /\ score_rows' = {}
    /\ export_status' = "none"
    /\ figures' = "none"
    /\ exported' = NoAnalysis
    /\ UNCHANGED << entry, initialized, temp_file, last_analysis, lookup_vars,
                    client_vars, latest_store >>

\* one well-formed request on a complete document
Stages ==
    \/ \E ok \in BOOLEAN : InitializeSession(ok)
    \/ AcceptRequest(DefaultRequest)
    \/ ParseResume(DefaultDoc)
    \/ \E n \in 0..MaxClaims, buzz \in BuzzDensities : ExtractClaims(n, buzz)
    \/ CompileAnalysis
    \/ ExportReport

Validation ==
    \E vals \in ValidationLists, score \in RawScores :
        ValidateEvidence(vals, score)

\* the detector is an external stage: any scores can come back
Detection ==
    \E flags \in 0..MaxFlags, s \in DetectorScores :
        DetectRedFlags(flags, s[1], s[2])

Next ==
    \/ Stages
    \/ Validation
    \/ Detection

Spec == Init /\ [][Next]_vars

\* the detector computes its scores by the documented policy
NextPolicy ==
    \/ Stages
    \/ Validation
    \/ \E flags \in 0..MaxFlags : DetectRedFlagsPolicy(flags)

SpecPolicy == Init /\ [][NextPolicy]_vars

\* the validator keeps its contract
NextContract ==
    \/ Stages
    \/ \E vals \in ValidationLists, score \in ContractScores :
           ValidateEvidenceContract(vals, score)
    \/ Detection

SpecContract == Init /\ [][NextContract]_vars

\* requests, documents and stage results of the request-boundary runs
SeniorityInputs == { "mid", "Senior", "guru" }

StrictnessInputs == { "medium", "HIGH", "extreme" }

Requests ==
    [ file : { "missing", "empty_name", "ok" },
      seniority : SeniorityInputs,
      strictness : StrictnessInputs ]

Docs ==
    [ length : { 50, 99, 100 },
      sections : { << >>, << "education" >>, << "skills" >>,
                   << "education", "experience" >> } ]

\* every request, every document, every stage failing, request after request
NextRequest ==
    \/ \E ok \in BOOLEAN : InitializeSession(ok)
    \/ \E req \in Requests : AcceptRequest(req)
    \/ \E req \in Requests : RejectRequest(req)
    \/ \E req \in Requests : UploadSaveRaises(req)
    \/ \E doc \in Docs : ParseResume(doc)
    \/ \E n \in 0..1 : ExtractClaims(n, D(0, 1000))
    \/ \E score \in ContractScores :
           ValidateEvidenceContract(<< "verified" >>, score)
    \/ DetectRedFlags(0, Pts(75), Pts(80))
    \/ StageRaises
    \/ CompileAnalysis
    \/ ExportReport
    \/ ReturnToIdle

SpecRequest == Init /\ [][NextRequest]_vars

\* api keys typed into the app: none, and a working one
Keys == { "", "k1" }

\* a request without a file, and a well-formed one
SessionRequests ==
    { DefaultRequest, [ DefaultRequest EXCEPT !.file = "missing" ] }

\* the result dict of the analysis another caller runs
OtherResults ==
    { CompileResults(1, << "partial" >>, D(0, 1000),
                     [ red_flags |-> 1, credibility_score |-> Pts(60),
                       final_score |-> Pts(50) ],
                     normalize_score_app(D(0, 5000))) }

InitApp ==
    /\ entry = "app"
    /\ InitSession
    /\ NoLookup

\* the app's session: initialize_session write by write, requests of two
\* callers, failures of the figures and of the text generators, exports
NextSession ==
    \/ \E key \in Keys, ok \in BOOLEAN : BeginInitialize(key, ok)
    \/ InitWrite
    \/ \E req \in SessionRequests : AcceptRequest(req)
    \/ \E req \in SessionRequests : RejectRequest(req)
    \/ ParseResume(DefaultDoc)
    \/ \E n \in 0..1 : ExtractClaims(n, D(0, 1000))
    \/ \E score \in ContractScores :
           ValidateEvidenceContract(<< "verified" >>, score)
    \/ DetectRedFlags(0, Pts(75), Pts(80))
    \/ StageRaises
    \/ \E viz \in { "drawn", "empty" } : Compile(viz)
    \/ DisplayRaises
    \/ \E results \in OtherResults : OtherCallerStores(results)
    \/ ExportReport
    \/ ReturnToIdle

SpecSession == InitApp /\ [][NextSession]_vars

\* a validation list of v verified, u unverified and p partial records
StatusList(v, u, p) ==
    [ i \in 1..(v + u + p) |->
        IF i <= v THEN "verified"
        ELSE IF i <= v + u THEN "unverified" ELSE "partial" ]

\* the validation lists of a document with ten claims
ScenarioLists ==
    { StatusList(c[1], c[2], 10 - c[1] - c[2]) :
        c \in { d \in (0..10) \X (0..10) : d[1] + d[2] <= 10 } }

\* the end-to-end scenarios of the design: ten claims, buzzword density
\* 0.03 or 0.15, raw consistency 0.88 or 120, up to four red flags, the
\* detector following the documented policy
NextScenario ==
    \/ \E ok \in BOOLEAN : InitializeSession(ok)
    \/ AcceptRequest(DefaultRequest)
    \/ ParseResume(DefaultDoc)
    \/ \E buzz \in { D(0, 300), D(0, 1500) } : ExtractClaims(10, buzz)
    \/ \E vals \in ScenarioLists, score \in { D(0, 8800), Pts(120) } :
           ValidateEvidence(vals, score)
    \/ \E flags \in 0..4 : DetectRedFlagsPolicy(flags)
    \/ CompileAnalysis

SpecScenario == Init /\ [][NextScenario]_vars

----------------------------------------------------------------------------
(* Claim-by-claim display: generate_enhanced_claim_analysis *)

MaxLookup == 2

DisplayLimit == 20

CategoryLimit == 5

ClaimIds == { "c1", "c2" }

\* a claim as far as the display reads it; "" is a claim without 'claim_id'
ClaimRecords ==
    [ claim_id : ClaimIds \cup { "" }, category : { "project", "skill" } ]

\* a validation record; "" is a record without 'claim_id'
ValidationRecords ==
    [ claim_id : ClaimIds \cup { "" },
      verification_status : { "verified", "unverified" } ]

ClaimLists == UNION { [1..k -> ClaimRecords] : k \in 0..MaxLookup }

ValidationRecordLists ==
    UNION { [1..k -> ValidationRecords] : k \in 0..MaxLookup }

\* the {} that validation_map.get falls back to, read with the defaults of
\* val.get('claim_id', '') and validation.get('verification_status', 'unknown')
EmptyValidation == [ claim_id |-> "", verification_status |-> "unknown" ]

\* validation_map: records without claim_id are skipped, a later record
\* replaces an earlier one with the same claim_id
validation_map(vals) ==
    LET ids == { vals[i].claim_id : i \in DOMAIN vals } \ { "" }
        last(id) == CHOOSE i \in DOMAIN vals :
                        /\ vals[i].claim_id = id
                        /\ \A j \in DOMAIN vals :
                              vals[j].claim_id = id => j <= i
    IN  [ id \in ids |-> vals[last(id)] ]

\* the claims paired with the validation at the same list position
PairedValidationsByPosition(claims, vals) ==
    [ i \in DOMAIN claims |->
        IF i \in DOMAIN vals THEN vals[i] ELSE EmptyValidation ]

\* validation_map.get(claim.get('claim_id', ''), {}) for each claim
PairedValidations(claims, vals) ==
    LET vmap == validation_map(vals)
    IN  [ i \in DOMAIN claims |->
            IF claims[i].claim_id \in DOMAIN vmap
            THEN vmap[claims[i].claim_id]
            ELSE EmptyValidation ]

\* claims[:20]
top_claims(claims) == SubSeq(claims, 1, Min(Len(claims), DisplayLimit))

\* the categories dict: per category the (claim, validation) pairs in the
\* order of the claims
categories(claims, vals) ==
    LET top == top_claims(claims)
        paired == PairedValidations(top, vals)
        pairs == [ i \in DOMAIN top |-> << top[i], paired[i] >> ]
        cats == { top[i].category : i \in DOMAIN top }
    IN  [ c \in cats |-> SelectSeq(pairs, LAMBDA p : p[1].category = c) ]

\* items[:5]: the pairs of a category that are rendered
displayed(items) == SubSeq(items, 1, Min(Len(items), CategoryLimit))

InitLookup ==
    /\ entry = "app"
    /\ InitSession
    /\ shown_claims \in ClaimLists
    /\ shown_validations \in ValidationRecordLists
    /\ claim_pairs = << >>

\* generate_enhanced_claim_analysis(claims, validations)
GenerateClaimAnalysis ==
    /\ pc = "idle"
    /\ claim_pairs' =
           [ c \in DOMAIN categories(shown_claims, shown_validations) |->
               displayed(categories(shown_claims, shown_validations)[c]) ]
    /\ pc' = "shown"
    /\ UNCHANGED << entry, initialized, request_vars, stage_data,
                    compile_data, last_analysis, export_status,
                    shown_claims, shown_validations, extra_vars >>

NextLookup == GenerateClaimAnalysis

SpecLookup == InitLookup /\ [][NextLookup]_vars

----------------------------------------------------------------------------
(* Properties *)

Done == pc = "done"

\* the normalisation rule of the design, section 4.4
NormalizeLaw(s) ==
    IF s > Pts(100) THEN Min(Pts(100), s \div 100)
    ELSE IF s <= Pts(1) THEN s * 100
    ELSE Min(Pts(100), s)

\* C1: for every raw score the value analyze_resume normalises to is the
\* one the rule gives, and the app copy and the api copy of normalize_score
\* give that same value.
C1_NormalizationLaw ==
    Done => /\ normalized = NormalizeLaw(raw_consistency)
            /\ normalize_score_app(raw_consistency) = normalized
            /\ normalize_score_api(raw_consistency) = normalized

C1_Witness ==
    Done /\ entry = "api" /\ raw_consistency = Pts(20000)
         /\ normalized = Pts(100)

\* C2: 0.85 normalises to 85, 42 to 42 and the boundary 1 to 100.
C2_Examples ==
    Done => /\ (raw_consistency = D(0, 8500) => normalized = Pts(85))
            /\ (raw_consistency = Pts(42) => normalized = Pts(42))
            /\ (raw_consistency = Pts(1) => normalized = Pts(100))

C2_Witness ==
    Done /\ entry = "app" /\ raw_consistency = Pts(1) /\ normalized = Pts(100)

\* C3 as stated: a raw score of 250 normalises to 100.
C3_Claim ==
    (Done /\ raw_consistency = Pts(250)) => normalized = Pts(100)

\* C3 amended: a raw score of 250 normalises to 2.5 (250 / 100).
C3_Amended ==
    (Done /\ raw_consistency = Pts(250)) => normalized = D(2, 5000)

C3_Witness ==
    Done /\ entry = "app" /\ raw_consistency = Pts(250)
         /\ analysis_results.consistency_score = D(2, 5000)

\* C4 as stated: a raw score of 150 normalises to 1.
C4_Claim ==
    (Done /\ raw_consistency = Pts(150)) => normalized = Pts(1)

\* C4 amended: a raw score of 150 takes the s > 100 branch and normalises
\* to min(100, 1.5) = 1.5.
C4_Amended ==
    (Done /\ raw_consistency = Pts(150)) => normalized = D(1, 5000)

C4_Witness ==
    Done /\ entry = "api" /\ raw_consistency = Pts(150)
         /\ analysis_results.consistency_score = D(1, 5000)

\* C5 as stated: every v in [0,100] other than 1 is a fixed point of the
\* normalisation, and normalising a normalised score other than 1 again
\* returns it.
C5_Claim ==
    Done => /\ (/\ 0 <= raw_consistency
                /\ raw_consistency <= Pts(100)
                /\ raw_consistency # Pts(1)) => normalized = raw_consistency
            /\ normalized # Pts(1)
                   => normalize_score(entry, normalized) = normalized

\* C5 amended: every v that is 0 or in (1,100] is a fixed point of the
\* normalisation, and normalising a normalised score that is 0 or greater
\* than 1 again returns it.
C5_Amended ==
    Done => /\ (\/ raw_consistency = 0
                \/ /\ raw_consistency > Pts(1)
                   /\ raw_consistency <= Pts(100)) => normalized = raw_consistency
            /\ (normalized = 0 \/ normalized > Pts(1))
                   => normalize_score(entry, normalized) = normalized

C5_Witness ==
    Done /\ entry = "app" /\ raw_consistency = Pts(42) /\ normalized = Pts(42)
         /\ normalize_score(entry, normalized) = Pts(42)

InRange(x) == 0 <= x /\ x <= Pts(100)

\* C6: whatever numeric consistency score the validator returned, the
\* consistency_score of the analysis result lies in [0,100].
C6_Claim ==
    Done => InRange(analysis_results.consistency_score)

\* C7: credibility_score and final_score of the analysis result lie in
\* [0,100], whatever the detector stage returned for them.
C7_Claim ==
    Done => /\ InRange(analysis_results.credibility_score)
            /\ InRange(analysis_results.final_score)

\* C8: the normalisation runs exactly once per request, not before the
\* validator and detector stages returned; the stored score is the
\* normalised one and neither display nor export changes it afterwards;
\* and the score handed to the final-score computation is the normalised one.
C8_Claim ==
    /\ (~Done => norm_count = 0)
    /\ (Done => /\ norm_count = 1
                /\ analysis_results.consistency_score
                       = Round1(normalize_score(entry, raw_consistency)))
    /\ ((Done /\ entry = "app")
            => last_analysis.consistency_score
                   = Round1(normalize_score(entry, raw_consistency)))
    /\ (pc \in { "detected", "done" }
            => detector_in = normalize_score(entry, raw_consistency))

Blend(credibility, consistency) == (6 * credibility + 4 * consistency) \div 10

RECURSIVE SumImpacts(_)
SumImpacts(rows) ==
    IF rows = {} THEN 0
    ELSE LET r == CHOOSE x \in rows : TRUE
         IN  r[2] + SumImpacts(rows \ { r })

When(cond, row) == IF cond THEN { row } ELSE {}

\* the adjustments the credibility policy of section 4.3 applies to a result
PolicyAdjustments(r) ==
    When(2 * r.unverified_claims > r.total_claims,
         << "Majority claims unverified", 0 - Pts(20) >>)
    \cup When(r.total_red_flags > 0,
              << "Red flags", 0 - Pts(5) * r.total_red_flags >>)
    \cup When(r.buzzword_density > D(0, 1000),
              << "High buzzword density", 0 - Pts(10) >>)
    \cup When(10 * r.verified_claims > 7 * r.total_claims,
              << "Strong evidence ratio", Pts(10) >>)

\* C10: the rows generate_score_calculation_details lists for a result are
\* exactly the adjustments of the credibility policy for that result's
\* counts, and the result's credibility score is 100 plus those
\* adjustments, clamped to [0,100].
C10_PolicyRows ==
    (Done /\ entry = "app")
        => /\ score_rows = PolicyAdjustments(analysis_results)
           /\ analysis_results.credibility_score
                  = Clamp100(Pts(100) + SumImpacts(score_rows))

C10_Witness ==
    Done /\ entry = "app" /\ Cardinality(score_rows) = 4
         /\ analysis_results.credibility_score = Pts(75)

\* number of records of vals whose status is in S, record by record
RECURSIVE CountStatus(_, _)
CountStatus(vals, S) ==
    IF vals = << >> THEN 0
    ELSE (IF Head(vals) \in S THEN 1 ELSE 0) + CountStatus(Tail(vals), S)

C12_CountsByStatus ==
    Done =>
        /\ analysis_results.verified_claims
               = CountStatus(validations, { "verified" })
        /\ analysis_results.unverified_claims
               = CountStatus(validations, { "unverified", "red_flag" })
        /\ analysis_results.verified_claims + analysis_results.unverified_claims
               = Len(validations) - CountStatus(validations, { "partial" })

C12_Witness ==
    /\ Done
    /\ validations = << "partial", "red_flag" >>
    /\ analysis_results.verified_claims = 0
    /\ analysis_results.unverified_claims = 1

\* the order in which analyze_resume calls its stages
StageOrder == << "parse", "extract", "validate", "detect" >>

IsPrefix(s, t) == Len(s) <= Len(t) /\ s = SubSeq(t, 1, Len(s))

\* the step stores a result in the session slot or hands one to the caller
StoresResult ==
    \/ analysis_results' # analysis_results /\ analysis_results' # NoAnalysis
    \/ last_analysis' # last_analysis /\ pc' # pc

\* C13: within a request the stages are called in the order parse, extract,
\* validate, detect, none twice and none before its predecessor returned; a
\* request that reports success has run all four, and a result is stored or
\* returned only by the step that follows the fourth stage
C13_StageOrder ==
    /\ [](/\ IsPrefix(stage_log, StageOrder)
          /\ (response.kind = "success" => stage_log = StageOrder)
          /\ (analysis_results # NoAnalysis => stage_log = StageOrder))
    /\ [][StoresResult => pc = "detected" /\ stage_log = StageOrder]_vars

C13_Witness ==
    /\ entry = "api"
    /\ pc = "done"
    /\ response.kind = "success"
    /\ stage_log = StageOrder
    /\ analysis_results # NoAnalysis

\* messages that name what is wrong with the parsed document
DiagnosticMessages ==
    { "Resume too short", "Could not parse resume structure",
      "Only found one section", "No analyzable claims found, sections listed" }

\* C14: when extraction returns zero claims, app.analyze_resume and
\* api.analyze_resume both return a diagnostic derived from the parsed
\* document, not a generic message
C14_Claim ==
    pc = "no_claims" => response.message \in DiagnosticMessages

\* C15: zero claims from a document whose raw_text has length 50: the message
\* returned says 'too short', whatever the sections
C15_Claim ==
    (pc = "no_claims" /\ parsed_cv.length = 50)
        => response.message = "Resume too short"

\* extraction has returned an empty claim list
ZeroClaimsExtracted ==
    /\ Len(stage_log) >= 2
    /\ n_claims = 0
    /\ pc # "failed"

\* C16: when zero claims are extracted the request ends there: validation
\* and detection are not called, the answer is not the 'Analysis failed' of
\* an exception, and the session's last_analysis is left as it was
C16_ZeroClaimsEnd ==
    /\ [](ZeroClaimsExtracted =>
            /\ pc = "no_claims"
            /\ stage_log = << "parse", "extract" >>
            /\ response.kind = "no_claims"
            /\ analysis_results = NoAnalysis)
    /\ [][(pc = "parsed" /\ ZeroClaimsExtracted')
             => last_analysis' = last_analysis]_vars
    /\ [][pc = "no_claims" => stage_log' \in { stage_log, << >> }]_vars

C16_Witness ==
    /\ entry = "app"
    /\ pc = "no_claims"
    /\ last_analysis # NoAnalysis
    /\ stage_log = << "parse", "extract" >>

\* C17: when a stage raises, no later stage is called, no result is stored
\* or returned, and the caller gets one error value, not the exception
C17_StageFailure ==
    /\ [](pc = "failed" =>
            /\ response.kind = "analysis_failed"
            /\ analysis_results = NoAnalysis
            /\ IsPrefix(stage_log, StageOrder))
    /\ [][pc' = "failed" =>
             /\ last_analysis' = last_analysis \/ pc' = pc
             /\ pc = "failed" \/ Len(stage_log') <= Len(stage_log) + 1]_vars
    /\ [][pc = "failed" => stage_log' \in { stage_log, << >> }]_vars

C17_Witness ==
    /\ entry = "app"
    /\ pc = "failed"
    /\ stage_log = << "parse", "extract", "validate" >>
    /\ response.kind = "analysis_failed"
    /\ last_analysis # NoAnalysis

\* C18: in the api a missing file, an empty filename, an invalid seniority
\* and an invalid strictness are answered with status 400, an exception of
\* a stage with status 500, and never the other way round
C18_StatusCodes ==
    entry = "api" =>
        /\ (request # NoRequest /\ EntryCheck(entry, initialized, request) # "none")
              => (pc = "rejected" /\ response.status = 400)
        /\ pc = "rejected" => response.kind = "input_error"
        /\ pc = "failed" =>
              (response.status = 500 /\ response.kind = "analysis_failed")
        /\ response.kind = "input_error" => response.status # 500
        /\ response.kind = "analysis_failed" => response.status # 400

C18_Witness ==
    /\ entry = "api"
    /\ pc = "failed"
    /\ stage_log = << "parse", "extract" >>
    /\ response.status = 500

\* the request names a seniority or a strictness outside the accepted sets
InvalidEnums(req) ==
    \/ ~SeniorityAccepted(req.seniority)
    \/ ~StrictnessAccepted(req.strictness)

\* C19: a request with a seniority or strictness outside the accepted sets
\* (after lower-casing) is rejected before the pipeline: no stage is called
\* and no temporary file is created for it
C19_Claim ==
    (request # NoRequest /\ InvalidEnums(request))
        => (pc = "rejected" /\ stage_log = << >>)

\* the validations that carry the claim_id id
Carrying(vals, id) ==
    { i \in DOMAIN vals : id # "" /\ vals[i].claim_id = id }

\* no two validations carry the same claim_id
UniqueIds(vals) ==
    \A i, j \in DOMAIN vals :
        (vals[i].claim_id = vals[j].claim_id /\ vals[i].claim_id # "") => i = j

\* the list vals in the order given by the permutation p of its positions
Permuted(vals, p) == [ i \in DOMAIN vals |-> vals[p[i]] ]

\* C20: every displayed claim is paired with a validation record carrying
\* the claim's claim_id, and with the empty record when no validation
\* carries it; when the ids of the validations are distinct the pairs are
\* the same for every permutation of the validations list
C20_LookupById ==
    pc = "shown" =>
        /\ \A c \in DOMAIN claim_pairs : \A k \in DOMAIN claim_pairs[c] :
              LET claim == claim_pairs[c][k][1]
                  validation == claim_pairs[c][k][2]
              IN  IF Carrying(shown_validations, claim.claim_id) = {}
                  THEN validation = EmptyValidation
                  ELSE \E i \in Carrying(shown_validations, claim.claim_id) :
                           validation = shown_validations[i]
        /\ \A i \in 1..Min(Len(shown_claims), CategoryLimit) :
              \E k \in DOMAIN claim_pairs[shown_claims[i].category] :
                  claim_pairs[shown_claims[i].category][k][1] = shown_claims[i]
        /\ UniqueIds(shown_validations) =>
              \A p \in Permutations(DOMAIN shown_validations) :
                  categories(shown_claims, Permuted(shown_validations, p))
                      = categories(shown_claims, shown_validations)

C20_Witness ==
    /\ pc = "shown"
    /\ Len(shown_claims) = 2
    /\ shown_claims[1].claim_id = "c1"
    /\ shown_claims[2].claim_id = "c2"
    /\ Len(shown_validations) = 1
    /\ shown_validations[1].claim_id = "c2"
    /\ \E c \in DOMAIN claim_pairs : \E k \in DOMAIN claim_pairs[c] :
          claim_pairs[c][k] = << shown_claims[2], shown_validations[1] >>
    /\ \E c \in DOMAIN claim_pairs : \E k \in DOMAIN claim_pairs[c] :
          claim_pairs[c][k] = << shown_claims[1], EmptyValidation >>

\* C21: the session slot holds one result, the one assigned last: after any
\* interleaving of the analyses of two callers last_analysis is the result
\* of the latest store, and a report is written from that result
C21_LastWriteWins ==
    /\ [](last_analysis = latest_store)
    /\ [][(exported' # exported /\ exported' # NoAnalysis)
             => exported' = latest_store]_vars

C21_Witness ==
    /\ pc = "done"
    /\ analysis_results # NoAnalysis
    /\ last_analysis \in OtherResults
    /\ last_analysis # analysis_results
    /\ export_status = "ok"
    /\ exported = last_analysis

\* C22: the result dict is not changed after it is built: when
\* analyze_resume has returned, the stored dict has the fields it was
\* built with (the dashboard generator changed none), and export_report,
\* called any number of times, leaves every field as it is
C22_ResultImmutable ==
    /\ []((Done /\ entry = "app" /\ export_status = "none") =>
            last_analysis = CompileResults(n_claims, validations,
                                           buzzword_density, red_flag_result,
                                           normalized))
    /\ [][(last_analysis # NoAnalysis /\ pc' = pc)
             => last_analysis' = last_analysis]_vars

C22_Witness ==
    /\ Done
    /\ entry = "app"
    /\ export_status = "ok"
    /\ exported = last_analysis
    /\ last_analysis.consistency_score = Pts(100)
    /\ raw_consistency > Pts(100)

\* ten claims, 7 verified and 3 unverified, no red flag, buzzword density
\* 0.03, raw consistency 0.88
ScenarioA ==
    /\ Done
    /\ n_claims = 10
    /\ validations = StatusList(7, 3, 0)
    /\ red_flag_result.red_flags = 0
    /\ buzzword_density = D(0, 300)
    /\ raw_consistency = D(0, 8800)

ScenarioB ==
    /\ Done
    /\ n_claims = 10
    /\ Len(validations) = 10
    /\ unverified_claims(validations) = 6
    /\ red_flag_result.red_flags = 4
    /\ buzzword_density = D(0, 1500)
    /\ raw_consistency = Pts(120)

C25_Claim ==
    (last_analysis = NoAnalysis /\ export_status # "none")
        => export_status = "no_analysis"

\* the step of app.analyze_resume that returns a failure to the caller
ReportsFailure ==
    /\ pc' # pc
    /\ response'.kind \in { "analysis_failed", "no_claims", "precondition" }

\* C26: a call of app.analyze_resume that reports a failure leaves
\* last_analysis as it was, and a call changes last_analysis only when it
\* returns the success status
C26_Claim ==
    [][/\ ReportsFailure => last_analysis' = last_analysis
       /\ (pc' # pc /\ last_analysis' # last_analysis)
             => response'.kind = "success"]_vars

\* C27: whenever api.analyze_resume has returned a response, the temporary
\* upload file the request created has been deleted: on success, on zero
\* claims, on a stage exception and on a failure while saving the upload
C27_Claim ==
    (entry = "api" /\ response # NoResponse) => temp_file # "exists"

SessionFields == << initialized, gemini_client, api_key >>

\* C28: in every state, also between the writes of initialize_session and
\* with analyze_resume calls in between, initialized implies that the client
\* is set; the session fields change only after initialize_session has passed
\* all its checks; analyze_resume on an uninitialized session or without a
\* file calls no stage and stores nothing
C28_SessionInit ==
    /\ [](initialized => gemini_client # "none")
    /\ [](pc = "rejected" => (stage_log = << >> /\ analysis_results = NoAnalysis))
    /\ [][/\ SessionFields' # SessionFields => init_pc.step \in 1..3
          /\ (pc # "rejected" /\ pc' = "rejected")
                => (/\ ~initialized \/ request'.file = "missing"
                    /\ last_analysis' = last_analysis)
          /\ (pc = "idle" /\ pc' = "accepted")
                => (/\ initialized
                    /\ gemini_client # "none"
                    /\ request'.file # "missing")]_vars

C28_Witness ==
    /\ init_pc.step = 2
    /\ gemini_client # "none"
    /\ ~initialized
    /\ pc = "rejected"
    /\ response.message = "Please initialize session with API key first"

\* C29: the zero-claims message of app.analyze_resume is 'too short' when
\* len(raw_text) < 100, whatever the sections; otherwise 'could not parse
\* structure' with no section; otherwise 'only found ...' with exactly one
\* section; otherwise the message listing the sections; always one of the four
C29_DiagnosticPriority ==
    (entry = "app" /\ pc = "no_claims") =>
        /\ response.message \in DiagnosticMessages
        /\ parsed_cv.length < 100 => response.message = "Resume too short"
        /\ (parsed_cv.length >= 100 /\ Len(parsed_cv.sections) = 0)
              => response.message = "Could not parse resume structure"
        /\ (parsed_cv.length >= 100 /\ Len(parsed_cv.sections) = 1)
              => response.message = "Only found one section"
        /\ (parsed_cv.length >= 100 /\ Len(parsed_cv.sections) > 1)
              => response.message = "No analyzable claims found, sections listed"

C29_Witness ==
    /\ entry = "app"
    /\ pc = "no_claims"
    /\ parsed_cv.length = 99
    /\ parsed_cv.sections = << >>
    /\ response.message = "Resume too short"

\* C30: when building the figures raises in app.analyze_resume, the call
\* returns empty figures, has stored the result in last_analysis, has
\* generated its text outputs and returns the success status
C30_FiguresRecovered ==
    /\ []((entry = "app" /\ pc = "done" /\ figures = "empty") =>
            /\ response.kind = "success"
            /\ stage_log = StageOrder
            /\ analysis_results # NoAnalysis
            /\ score_rows = generate_score_calculation_details(analysis_results))
    /\ [][(pc = "detected" /\ figures' = "empty") =>
             (/\ pc' = "done"
              /\ last_analysis' = analysis_results'
              /\ last_analysis' # NoAnalysis)]_vars

C30_Witness ==
    /\ entry = "app"
    /\ pc = "done"
    /\ figures = "empty"
    /\ response.kind = "success"
    /\ last_analysis = analysis_results
    /\ last_analysis # NoAnalysis

====
